---- MODULE Spec2Model ----
(***************************************************************************)
(* Model of @snowpack/plugin-optimize: the moo-based HTML tokenizer        *)
(* (lib/html.js parseHTML), the import scanner (scanHTML), the document    *)
(* rewriter (injectHTML) and the optimize orchestrator (plugin.optimize).  *)
(*                                                                         *)
(* Text is a sequence of one-character strings; offsets are 0-based as in  *)
(* JavaScript, so the character at offset i of d is d[i + 1].              *)
(***************************************************************************)
EXTENDS Integers, Sequences, FiniteSets, TLC

VARIABLES
  doc,        \* the text handed to parseHTML / the file's content
  lexer,      \* moo lexer: [index, state, stack]
  tokens,     \* tokens returned by next() so far (tokenizer runs)
  node,       \* the walker's current token (scanHTML, injectHTML)
  pc,         \* position of the running function
  css,        \* scanHTML: allCSSImports
  js,         \* scanHTML: allJSImports; preloadJS: allModules; in insertion order
  entry,      \* scanHTML: entry; preloadJS: originalEntries
  jsPos,      \* scanHTML: number of elements allJSImports.forEach has visited
  scannedFiles, \* scanHTML: scannedFiles
  scanLog,  \* the files scanJS has read, in order
  imports,    \* the static imports of every JS file on disk
  importList, \* scanHTML: importList (the manifest)
  code,       \* injectHTML, preloadJS: code
  indent,     \* injectHTML: indent
  charOffset, \* injectHTML: charOffset
  inserted,   \* injectHTML: the insertions made, [at, text] in order
  opts,       \* injectHTML: {headEnd, bodyEnd}
  options,    \* plugin: options
  workers,    \* plugin: CONCURRENT_WORKERS
  faulty,     \* the files on which the external minifier fails
  unreadable, \* the files fs.promises.readFile rejects on
  disk,       \* the content of every file of the build directory
  task,       \* optimize: per file, where its queued task is: [status, value]
  queue,      \* optimize: the tasks parallelWorkQueue has not started yet
  log,        \* the messages passed to log(..., 'error'): [file, err]
  service,    \* optimize: esbuildService
  generatedFiles, \* optimize: generatedFiles
  manifestFile    \* what optimize-manifest.json holds, <<>> while not written

optimizeVars == <<options, workers, faulty, unreadable, disk, task, queue, log,
                  service, generatedFiles, manifestFile>>

htmlVars == <<doc, lexer, tokens, node, css, js, entry, jsPos, scannedFiles,
              scanLog, imports, code, indent, charOffset, inserted, opts>>

vars == <<doc, lexer, tokens, node, pc, css, js, entry, jsPos, scannedFiles,
          scanLog, imports, importList, code, indent, charOffset, inserted, opts,
          options, workers, faulty, unreadable, disk, task, queue, log, service,
          generatedFiles, manifestFile>>

-----------------------------------------------------------------------------
(* Characters and text helpers *)

TAB == "\t"
LF == "\n"
CR == "\r"
QUOTE == "\""
APOS == "'"

\* [a-zA-Z-]
UpperCase == <<"A", "B", "C", "D", "E", "F", "G", "H", "I", "J", "K", "L", "M",
               "N", "O", "P", "Q", "R", "S", "T", "U", "V", "W", "X", "Y", "Z">>
LowerCase == <<"a", "b", "c", "d", "e", "f", "g", "h", "i", "j", "k", "l", "m",
               "n", "o", "p", "q", "r", "s", "t", "u", "v", "w", "x", "y", "z">>
LetterChars == {UpperCase[k] : k \in 1..26} \cup {LowerCase[k] : k \in 1..26} \cup {"-"}
\* \s (the members that occur in the model's documents)
SpaceChars == {" ", TAB, LF, CR}
\* what . does not match: JavaScript's line terminators
LineTerminators == {LF, CR}

\* String.prototype.toLowerCase, per character
LowerChar(c) ==
  IF \E k \in 1..26 : UpperCase[k] = c
  THEN LowerCase[CHOOSE k \in 1..26 : UpperCase[k] = c]
  ELSE c

Min(S) == CHOOSE x \in S : \A y \in S : x <= y

\* d.charAt(i), 0-based; "" past the end
CharAt(d, i) == IF i >= 0 /\ i < Len(d) THEN d[i + 1] ELSE ""

\* d.slice(from, to), 0-based, to exclusive
Slice(d, from, to) == SubSeq(d, from + 1, to)

\* does the text s stand at offset i of d
HasAt(d, i, s) == /\ i + Len(s) <= Len(d)
                  /\ \A k \in 1..Len(s) : d[i + k] = s[k]

\* length of the longest run of characters of S starting at offset i
Span(d, i, S) ==
  Min({n \in 0..(Len(d) - i) : n = Len(d) - i \/ d[i + n + 1] \notin S})

\* length of the longest run of characters outside S starting at offset i
SpanNot(d, i, S) ==
  Min({n \in 0..(Len(d) - i) : n = Len(d) - i \/ d[i + n + 1] \in S})

RECURSIVE MapLower(_)
MapLower(s) == IF s = <<>> THEN <<>> ELSE <<LowerChar(Head(s))>> \o MapLower(Tail(s))

\* s.replace(/\s/g, '')
RECURSIVE StripSpace(_)
StripSpace(s) ==
  IF s = <<>> THEN <<>>
  ELSE IF Head(s) \in SpaceChars THEN StripSpace(Tail(s))
  ELSE <<Head(s)>> \o StripSpace(Tail(s))

\* String.prototype.trim
Trim(s) ==
  LET lead == Span(s, 0, SpaceChars)
      rest == Slice(s, lead, Len(s))
      keep == IF rest = <<>> THEN 0
              ELSE CHOOSE n \in 1..Len(rest) :
                     /\ rest[n] \notin SpaceChars
                     /\ \A m \in (n + 1)..Len(rest) : rest[m] \in SpaceChars
  IN  SubSeq(rest, 1, keep)

-----------------------------------------------------------------------------
(* parseHTML: the rules of each lexer state, in the order moo tries them.  *)
(* A rule operator gives the length of its match at offset i, 0 for none.  *)

\* main.commentStart  /<!--/
commentStart(d, i) == IF HasAt(d, i, <<"<", "!", "-", "-">>) THEN 4 ELSE 0

\* main.docType  /<![^>]+>/
docType(d, i) ==
  LET n == SpanNot(d, i + 2, {">"})
  IN  IF HasAt(d, i, <<"<", "!">>) /\ n >= 1 /\ CharAt(d, i + 2 + n) = ">"
      THEN n + 3 ELSE 0

\* main.tagOpen  /<\s*[a-zA-Z-]+/
tagOpen(d, i) ==
  LET w == Span(d, i + 1, SpaceChars)
      l == Span(d, i + 1 + w, LetterChars)
  IN  IF CharAt(d, i) = "<" /\ l >= 1 THEN 1 + w + l ELSE 0

\* main.tagClose  /<\/\s*[a-zA-Z-]+\s*>/
tagClose(d, i) ==
  LET w == Span(d, i + 2, SpaceChars)
      l == Span(d, i + 2 + w, LetterChars)
      v == Span(d, i + 2 + w + l, SpaceChars)
  IN  IF HasAt(d, i, <<"<", "/">>) /\ l >= 1 /\ CharAt(d, i + 2 + w + l + v) = ">"
      THEN 3 + w + l + v ELSE 0

\* main.nl  /\r?\n/
nl(d, i) ==
  IF CharAt(d, i) = LF THEN 1
  ELSE IF HasAt(d, i, <<CR, LF>>) THEN 2 ELSE 0

\* main.indent  /[\t| ]+/
indentRule(d, i) == Span(d, i, {TAB, "|", " "})

\* main.any, tag.tagAny, attr.attrAny  /.+/
any(d, i) == SpanNot(d, i, LineTerminators)

\* comment.commentEnd  /\s*-->/
commentEnd(d, i) ==
  LET w == Span(d, i, SpaceChars)
  IN  IF HasAt(d, i + w, <<"-", "-", ">">>) THEN w + 3 ELSE 0

\* comment.commentAny  /./
commentAny(d, i) == IF i < Len(d) /\ CharAt(d, i) \notin LineTerminators THEN 1 ELSE 0

\* tag.tagSelfClose  /\/>/
tagSelfClose(d, i) == IF HasAt(d, i, <<"/", ">">>) THEN 2 ELSE 0

\* tag.tagEnd  />/
tagEnd(d, i) == IF CharAt(d, i) = ">" THEN 1 ELSE 0

\* tag.attrName  /[a-zA-Z-]+/
attrName(d, i) == Span(d, i, LetterChars)

\* tag.tagWS  /[\t|\s]+/
tagWS(d, i) == Span(d, i, SpaceChars \cup {"|"})

\* attr.attrAssignment  /=/
attrAssignment(d, i) == IF CharAt(d, i) = "=" THEN 1 ELSE 0

\* attr.attrEnd  /\s/
attrEnd(d, i) == IF CharAt(d, i) \in SpaceChars THEN 1 ELSE 0

\* attr.attrValue  /"[^"]+"/
attrValue(d, i) ==
  LET n == SpanNot(d, i + 1, {QUOTE})
  IN  IF CharAt(d, i) = QUOTE /\ n >= 1 /\ CharAt(d, i + 1 + n) = QUOTE
      THEN n + 2 ELSE 0

\* attrValue's value: trim, then /^('|")?/ -> '"' and /("|')?$/ -> '"'
OpenQuote(t) == <<QUOTE>> \o (IF t # <<>> /\ Head(t) \in {QUOTE, APOS} THEN Tail(t) ELSE t)
CloseQuote(t) == (IF t[Len(t)] \in {QUOTE, APOS} THEN SubSeq(t, 1, Len(t) - 1) ELSE t) \o <<QUOTE>>
attrValueValue(text) == CloseQuote(OpenQuote(Trim(text)))

\* the rules of a state in moo's order, each with the length of its match
RulesOf(d, i, state) ==
  CASE state = "main" ->
         << [type |-> "commentStart", len |-> commentStart(d, i)],
            [type |-> "docType", len |-> docType(d, i)],
            [type |-> "tagOpen", len |-> tagOpen(d, i)],
            [type |-> "tagClose", len |-> tagClose(d, i)],
            [type |-> "nl", len |-> nl(d, i)],
            [type |-> "indent", len |-> indentRule(d, i)],
            [type |-> "any", len |-> any(d, i)] >>
    [] state = "comment" ->
         << [type |-> "commentEnd", len |-> commentEnd(d, i)],
            [type |-> "commentAny", len |-> commentAny(d, i)] >>
    [] state = "tag" ->
         << [type |-> "tagSelfClose", len |-> tagSelfClose(d, i)],
            [type |-> "tagEnd", len |-> tagEnd(d, i)],
            [type |-> "attrName", len |-> attrName(d, i)],
            [type |-> "tagWS", len |-> tagWS(d, i)],
            [type |-> "tagAny", len |-> any(d, i)] >>
    [] state = "attr" ->
         << [type |-> "attrAssignment", len |-> attrAssignment(d, i)],
            [type |-> "attrEnd", len |-> attrEnd(d, i)],
            [type |-> "attrValue", len |-> attrValue(d, i)],
            [type |-> "attrAny", len |-> any(d, i)] >>

\* the first of the rules, in order, with a match; when none has one, moo's
\* default error rule (shouldThrow) takes the rest of the buffer
FirstMatch(rules, rest) ==
  IF \A k \in 1..Len(rules) : rules[k].len = 0 THEN [type |-> "error", len |-> rest]
  ELSE rules[Min({k \in 1..Len(rules) : rules[k].len > 0})]

\* the rule that matches at offset i in the given state
MatchRule(d, i, state) == FirstMatch(RulesOf(d, i, state), Len(d) - i)

\* the value transform of a rule
TokenValue(type, text) ==
  CASE type \in {"tagOpen", "tagClose"} -> StripSpace(MapLower(text))
    [] type = "attrName" -> MapLower(text)
    [] type = "attrAssignment" -> Trim(text)
    [] type = "attrValue" -> attrValueValue(text)
    [] OTHER -> text

\* the state change of a rule: pop, push or none
PushOf(type) ==
  CASE type \in {"commentStart"} -> "comment"
    [] type = "tagOpen" -> "tag"
    [] type = "attrName" -> "attr"
    [] OTHER -> ""

PopsState(type) == type \in {"commentEnd", "tagSelfClose", "tagEnd", "attrEnd", "attrValue"}

\* parseHTML(htmlDoc): lexer.reset(htmlDoc)
parseHTML(d) == [index |-> 0, state |-> "main", stack |-> <<>>]

EOF == [type |-> "EOF", text |-> <<>>, value |-> <<>>, offset |-> 0]

\* no token read yet
Idle == [type |-> "none", text |-> <<>>, value |-> <<>>, offset |-> 0]

\* the token object moo builds for a match: text is the matched text as it
\* stands in the buffer, value the rule's transform of it
TokenWithoutOffset(type, text, offset) ==
  [type |-> type, text |-> text, value |-> TokenValue(type, text), offset |-> 0]

TokenTextAsValue(type, text, offset) ==
  [type |-> type, text |-> TokenValue(type, text),
   value |-> TokenValue(type, text), offset |-> offset]

TokenOf(type, text, offset) ==
  [type |-> type, text |-> text, value |-> TokenValue(type, text), offset |-> offset]

\* the lexer after a token of the given type and length: pop (popState on an
\* empty stack leaves the state), push or stay
PopState(lx, len) ==
  IF lx.stack = <<>> THEN [lx EXCEPT !.index = @ + len]
  ELSE [index |-> lx.index + len, state |-> lx.stack[Len(lx.stack)],
        stack |-> SubSeq(lx.stack, 1, Len(lx.stack) - 1)]

PushState(lx, len, state) ==
  [index |-> lx.index + len, state |-> state, stack |-> Append(lx.stack, lx.state)]

Transition(lx, type, len) ==
  IF PopsState(type) THEN PopState(lx, len)
  ELSE IF PushOf(type) # "" THEN PushState(lx, len, PushOf(type))
  ELSE [lx EXCEPT !.index = @ + len]

\* the token of the matched rule r and the lexer after it
Emit(d, lx, r) ==
  [tok |-> TokenOf(r.type, Slice(d, lx.index, lx.index + r.len), lx.index),
   lx |-> Transition(lx, r.type, r.len)]

\* lexer.next(): the token (EOF for undefined at the end of the buffer, type
\* "error" when moo throws "invalid syntax") and the lexer afterwards
LexNext(d, lx) ==
  IF lx.index = Len(d) THEN [tok |-> EOF, lx |-> lx]
  ELSE Emit(d, lx, MatchRule(d, lx.index, lx.state))

-----------------------------------------------------------------------------
(* Documents. A document is a concatenation of a bounded number of pieces. *)

MaxLexPieces == 3

RECURSIVE Flatten(_)
Flatten(ps) == IF ps = <<>> THEN <<>> ELSE Head(ps) \o Flatten(Tail(ps))

DocsOf(pieces, n) == {Flatten(ps) : ps \in UNION {[1..k -> pieces] : k \in 0..n}}

\* pieces of markup for the tokenizer: comment delimiters, a tag opening
\* (upper-case, with inner white space), a closing tag, tag ends, white
\* space, both line terminators, a letter, '=', a quoted value, a doctype
LexPieces ==
  { <<"<", "!", "-", "-">>, <<"-", "-", ">">>, <<"<", " ", "A">>, <<"<", "/", "a", ">">>,
    <<">">>, <<"/", ">">>, <<" ">>, <<LF>>, <<CR>>, <<"b">>, <<" ", "b">>,
    <<"=", QUOTE, "v", QUOTE>>, <<"<", "!", "d", ">">>, <<"|">> }

LexDocs == DocsOf(LexPieces, MaxLexPieces)

-----------------------------------------------------------------------------
(* The tokenizer alone: parseHTML(doc), then next() until the end.         *)

\* the variables a run of one function does not use
NoScan == /\ css = {} /\ js = <<>> /\ entry = {} /\ jsPos = 0
          /\ scannedFiles = {} /\ scanLog = <<>> /\ imports = <<>>
          /\ importList = <<>>
NoInject == /\ code = <<>> /\ indent = <<>> /\ charOffset = 0
            /\ inserted = <<>> /\ opts = <<>>
NoOptimize == /\ options = <<>> /\ workers = 1 /\ faulty = {} /\ disk = <<>>
              /\ unreadable = {}
              /\ task = <<>> /\ queue = <<>> /\ log = <<>> /\ service = "none"
              /\ generatedFiles = <<>> /\ manifestFile = <<>>

InitLex ==
  /\ doc \in LexDocs
  /\ lexer = parseHTML(doc)
  /\ tokens = <<>>
  /\ node = Idle
  /\ pc = "lex"
  /\ NoScan
  /\ NoInject
  /\ NoOptimize

\* one call of next() by a consumer that reads every token
LexStep ==
  /\ pc = "lex"
  /\ LET r == LexNext(doc, lexer)
     IN  /\ lexer' = r.lx
         /\ node' = r.tok
         /\ IF r.tok.type = "EOF" THEN pc' = "done" /\ tokens' = tokens
            ELSE IF r.tok.type = "error" THEN pc' = "LexError" /\ tokens' = tokens
            ELSE pc' = "lex" /\ tokens' = Append(tokens, r.tok)
  /\ UNCHANGED <<doc, css, js, entry, jsPos, scannedFiles, scanLog, imports,
                 importList, code, indent, charOffset, inserted, opts>>
  /\ UNCHANGED optimizeVars

NextLex == LexStep

SpecLex == InitLex /\ [][NextLex]_vars

\* the tokenizer on documents with comments: comment delimiters, a line
\* break, text, a tag opening, a space
MaxCommentPieces == 4

CommentPieces ==
  { <<"<", "!", "-", "-">>, <<"-", "-", ">">>, <<LF>>, <<"x">>, <<"<", " ", "A">>, <<" ">> }

CommentDocs == DocsOf(CommentPieces, MaxCommentPieces)

InitComment ==
  /\ doc \in CommentDocs
  /\ lexer = parseHTML(doc)
  /\ tokens = <<>>
  /\ node = Idle
  /\ pc = "lex"
  /\ NoScan
  /\ NoInject
  /\ NoOptimize

SpecComment == InitComment /\ [][NextLex]_vars

-----------------------------------------------------------------------------
(* Node's path.join and path.dirname (posix), on texts.                    *)

\* p.split('/')
RECURSIVE SplitSlash(_, _)
SplitSlash(p, cur) ==
  IF p = <<>> THEN <<cur>>
  ELSE IF Head(p) = "/" THEN <<cur>> \o SplitSlash(Tail(p), <<>>)
  ELSE SplitSlash(Tail(p), Append(cur, Head(p)))

\* normalizeString: drop empty and "." segments, let ".." take back a segment
RECURSIVE NormSegs(_, _, _)
NormSegs(segs, acc, abs) ==
  IF segs = <<>> THEN acc
  ELSE LET g == Head(segs) IN
    IF g = <<>> \/ g = <<".">> THEN NormSegs(Tail(segs), acc, abs)
    ELSE IF g = <<".", ".">>
    THEN IF acc # <<>> /\ acc[Len(acc)] # <<".", ".">>
         THEN NormSegs(Tail(segs), SubSeq(acc, 1, Len(acc) - 1), abs)
         ELSE IF abs THEN NormSegs(Tail(segs), acc, abs)
         ELSE NormSegs(Tail(segs), Append(acc, g), abs)
    ELSE NormSegs(Tail(segs), Append(acc, g), abs)

RECURSIVE JoinSlash(_)
JoinSlash(segs) ==
  IF segs = <<>> THEN <<>>
  ELSE IF Len(segs) = 1 THEN Head(segs)
  ELSE Head(segs) \o <<"/">> \o JoinSlash(Tail(segs))

\* path.normalize
normalize(p) ==
  IF p = <<>> THEN <<".">>
  ELSE
    LET abs   == Head(p) = "/"
        trail == p[Len(p)] = "/"
        body  == JoinSlash(NormSegs(SplitSlash(p, <<>>), <<>>, abs))
        b1    == IF body = <<>> /\ ~abs THEN <<".">> ELSE body
        b2    == IF b1 # <<>> /\ trail THEN b1 \o <<"/">> ELSE b1
    IN  IF abs THEN <<"/">> \o b2 ELSE b2

\* path.join(a, b)
join(a, b) ==
  IF a = <<>> THEN normalize(b)
  ELSE IF b = <<>> THEN normalize(a)
  ELSE normalize(a \o <<"/">> \o b)

\* path.dirname(p)
dirname(p) ==
  LET cuts == {k \in 1..(Len(p) - 1) : p[k] = "/" /\ p[k + 1] # "/"}
  IN  IF cuts = {} THEN (IF p # <<>> /\ Head(p) = "/" THEN <<"/">> ELSE <<".">>)
      ELSE LET k == CHOOSE x \in cuts : \A y \in cuts : y <= x
               e == CHOOSE x \in 0..(k - 1) :
                      /\ \A y \in (x + 1)..(k - 1) : p[y] = "/"
                      /\ (x = 0 \/ p[x] # "/")
           IN  IF e = 0 THEN <<"/">> ELSE SubSeq(p, 1, e)

-----------------------------------------------------------------------------
(* scanHTML: the walk over one file's tokens.                              *)

\* the build directory and the HTML file being scanned: /o and /o/p/i.html
buildDirectory == <<"/", "o">>
htmlFile == <<"/", "o", "/", "p", "/", "i", ".", "h", "t", "m", "l">>

\* value.replace(/^"/, '').replace(/"$/, '')
Unquote(v) ==
  LET a == IF v # <<>> /\ Head(v) = QUOTE THEN Tail(v) ELSE v
  IN  IF a # <<>> /\ a[Len(a)] = QUOTE THEN SubSeq(a, 1, Len(a) - 1) ELSE a

\* href[0] === '/' ? path.join(buildDirectory, href) : path.join(path.dirname(file), href)
ResolveAlwaysRelative(file, href) == join(dirname(file), href)

Resolve(file, href) ==
  IF href # <<>> /\ Head(href) = "/" THEN join(buildDirectory, href)
  ELSE join(dirname(file), href)

\* the condition of the loop that looks for the attribute:
\* while (attrStart.type !== 'attrName' && attrStart.value !== name)
AttrLoopContinues(tok, name) == tok.type # "attrName" /\ tok.value # name

\* let attrStart = html.next(); while (...) attrStart = html.next();
\* reading .type of undefined at the end of the document is a TypeError
RECURSIVE FindAttrStart(_, _, _)
RECURSIVE AttrStartAt(_, _, _)
FindAttrStart(d, lx, name) == AttrStartAt(d, name, LexNext(d, lx))

AttrStartAt(d, name, r) ==
  IF r.tok.type = "EOF" THEN [status |-> "TypeError", tok |-> r.tok, lx |-> r.lx]
  ELSE IF r.tok.type = "error" THEN [status |-> "LexError", tok |-> r.tok, lx |-> r.lx]
  ELSE IF AttrLoopContinues(r.tok, name) THEN FindAttrStart(d, r.lx, name)
  ELSE [status |-> "ok", tok |-> r.tok, lx |-> r.lx]

\* let href = html.next(); while (href.type !== 'attrValue') href = html.next();
RECURSIVE FindAttrValue(_, _)
RECURSIVE AttrValueAt(_, _)
FindAttrValue(d, lx) == AttrValueAt(d, LexNext(d, lx))

AttrValueAt(d, r) ==
  IF r.tok.type = "EOF" THEN [status |-> "TypeError", tok |-> r.tok, lx |-> r.lx]
  ELSE IF r.tok.type = "error" THEN [status |-> "LexError", tok |-> r.tok, lx |-> r.lx]
  ELSE IF r.tok.type # "attrValue" THEN FindAttrValue(d, r.lx)
  ELSE [status |-> "ok", tok |-> r.tok, lx |-> r.lx]

\* step 3: the value found, without its quotes
RefOf(v) ==
  IF v.status # "ok" THEN [status |-> v.status, ref |-> <<>>, lx |-> v.lx]
  ELSE [status |-> "ok", ref |-> Unquote(v.tok.value), lx |-> v.lx]

\* step 2 after step 1 ended with a
ValueAfter(d, a) ==
  IF a.status # "ok" THEN [status |-> a.status, ref |-> <<>>, lx |-> a.lx]
  ELSE RefOf(FindAttrValue(d, a.lx))

\* steps 1-3 of a <link> or <script> tag
TagRef(d, lx, name) == ValueAfter(d, FindAttrStart(d, lx, name))

\* Set.prototype.add on a set kept in insertion order
SetAdd(seq, x) == IF \E k \in 1..Len(seq) : seq[k] = x THEN seq ELSE Append(seq, x)
Elems(seq) == {seq[k] : k \in 1..Len(seq)}

\* allCSSImports.add(resolvedCSS)
AddCSS(st, resolved) == [st EXCEPT !.css = @ \cup {resolved}]

\* allJSImports.add(resolvedJS); entry.add(resolvedJS)
AddJSEntryOnly(st, resolved) == [st EXCEPT !.entry = @ \cup {resolved}]

AddJS(st, resolved) ==
  [st EXCEPT !.js = SetAdd(@, resolved), !.entry = @ \cup {resolved}]

\* node = html.next() at the end of the loop body
Advanced(st, r) ==
  IF r.tok.type = "error" THEN [st EXCEPT !.status = "LexError", !.lexer = r.lx]
  ELSE [st EXCEPT !.node = r.tok, !.lexer = r.lx]

Advance(d, st) == Advanced(st, LexNext(d, st.lexer))

IsLink(tok) == tok.type = "tagOpen" /\ tok.value = <<"<", "l", "i", "n", "k">>
IsScript(tok) == tok.type = "tagOpen" /\ tok.value = <<"<", "s", "c", "r", "i", "p", "t">>

\* the attribute looked for in a tag
AttrFor(tok) == IF IsLink(tok) THEN <<"h", "r", "e", "f">> ELSE <<"s", "r", "c">>

\* step 4: the resolved path joins the sets of the tag's kind
Record(st, lx, path) ==
  IF IsLink(st.node) THEN AddCSS([st EXCEPT !.lexer = lx], path)
  ELSE AddJS([st EXCEPT !.lexer = lx], path)

\* the rest of the pass once steps 1-3 ended with t
AfterTag(d, file, st, t) ==
  IF t.status # "ok" THEN [st EXCEPT !.status = t.status, !.lexer = t.lx]
  ELSE Advance(d, Record(st, t.lx, Resolve(file, t.ref)))

\* one pass of the body of while (node), on the walk's state
\* st = [lexer, node, css, js, entry, status]
WalkNode(d, file, st) ==
  IF IsLink(st.node) \/ IsScript(st.node)
  THEN AfterTag(d, file, st, TagRef(d, st.lexer, AttrFor(st.node)))
  ELSE Advance(d, st)

\* const html = parseHTML(code); let node = html.next(); with the empty sets
WalkStart(d) ==
  Advance(d, [lexer |-> parseHTML(d), node |-> Idle, css |-> {}, js |-> <<>>,
              entry |-> {}, status |-> "ok"])

\* the whole loop
RECURSIVE WalkAll(_, _, _)
WalkAll(d, file, st) ==
  IF st.status # "ok" \/ st.node.type = "EOF" THEN st
  ELSE WalkAll(d, file, WalkNode(d, file, st))

-----------------------------------------------------------------------------
(* scanJS (lib/js.js) and the closure over static imports.                 *)

\* the static imports of a file; a file that is not on disk has none
ImportsOf(imp, f) == IF f \in DOMAIN imp THEN imp[f] ELSE {}

RECURSIVE AddAll(_, _)
AddAll(seq, S) ==
  IF S = {} THEN seq
  ELSE LET x == CHOOSE y \in S : TRUE IN AddAll(SetAdd(seq, x), S \ {x})

\* scanJS({file, rootDir, scannedFiles, importList}): a file already in
\* scannedFiles is not read again; otherwise the file is marked, its static
\* imports join importList, and every listed file not yet scanned is scanned
\* in turn.  st = [scanned, list, log]
RECURSIVE scanJS(_, _, _)
RECURSIVE ScanPending(_, _)
scanJS(file, imp, st) ==
  IF file \in st.scanned THEN st
  ELSE ScanPending(imp, [scanned |-> st.scanned \cup {file},
                         list |-> AddAll(SetAdd(st.list, file), ImportsOf(imp, file)),
                         log |-> Append(st.log, file)])

\* the recursion of scanJS over the listed files that are not yet scanned
ScanPending(imp, st) ==
  LET pending == {k \in 1..Len(st.list) : st.list[k] \notin st.scanned}
  IN  IF pending = {} THEN st
      ELSE ScanPending(imp, scanJS(st.list[Min(pending)], imp, st))

\* .forEach((i) => allJSImports.add(i)) on what scanJS returned
UnionNothing(list, result) == list

RECURSIVE UnionResult(_, _)
UnionResult(list, result) ==
  IF result = <<>> THEN list
  ELSE UnionResult(SetAdd(list, Head(result)), Tail(result))

\* the callback of allJSImports.forEach on the element at position pos + 1
\* st = [js, pos, scanned, log]
Folded(st, r) ==
  [js |-> UnionResult(st.js, r.list), pos |-> st.pos + 1, scanned |-> r.scanned,
   log |-> r.log]

ClosureNode(imp, st) ==
  Folded(st, scanJS(st.js[st.pos + 1], imp,
                    [scanned |-> st.scanned, list |-> st.js, log |-> st.log]))

\* the whole of allJSImports.forEach
RECURSIVE ClosureAll(_, _)
ClosureAll(imp, st) ==
  IF st.pos >= Len(st.js) THEN st ELSE ClosureAll(imp, ClosureNode(imp, st))

-----------------------------------------------------------------------------
(* Documents and import graphs for scanHTML.                               *)

MaxScanPieces == 3

\* <link href="/a.css">
LinkRootA ==
  <<"<", "l", "i", "n", "k", " ", "h", "r", "e", "f", "=", QUOTE, "/", "a", ".", "c",
    "s", "s", QUOTE, ">">>
\* <link href="b.css">
LinkRelB ==
  <<"<", "l", "i", "n", "k", " ", "h", "r", "e", "f", "=", QUOTE, "b", ".", "c", "s",
    "s", QUOTE, ">">>
\* <link rel="s" href="/a.css">
LinkRelFirst ==
  <<"<", "l", "i", "n", "k", " ", "r", "e", "l", "=", QUOTE, "s", QUOTE, " ", "h", "r",
    "e", "f", "=", QUOTE, "/", "a", ".", "c", "s", "s", QUOTE, ">">>
\* <link/>
LinkSelfClose ==
  <<"<", "l", "i", "n", "k", "/", ">">>
\* <script src="/m.js">
ScriptRootM ==
  <<"<", "s", "c", "r", "i", "p", "t", " ", "s", "r", "c", "=", QUOTE, "/", "m", ".",
    "j", "s", QUOTE, ">">>
\* <script src="n.js">
ScriptRelN ==
  <<"<", "s", "c", "r", "i", "p", "t", " ", "s", "r", "c", "=", QUOTE, "n", ".", "j",
    "s", QUOTE, ">">>
\* <script src="../m.js">
ScriptUpM ==
  <<"<", "s", "c", "r", "i", "p", "t", " ", "s", "r", "c", "=", QUOTE, ".", ".", "/",
    "m", ".", "j", "s", QUOTE, ">">>
\* <script type="t" src="/m.js">
ScriptTypeFirst ==
  <<"<", "s", "c", "r", "i", "p", "t", " ", "t", "y", "p", "e", "=", QUOTE, "t", QUOTE,
    " ", "s", "r", "c", "=", QUOTE, "/", "m", ".", "j", "s", QUOTE, ">">>
\* <script>
ScriptInline ==
  <<"<", "s", "c", "r", "i", "p", "t", ">">>
\* </script>
ScriptClose ==
  <<"<", "/", "s", "c", "r", "i", "p", "t", ">">>
\* <A id="z">
AnchorId ==
  <<"<", "A", " ", "i", "d", "=", QUOTE, "z", QUOTE, ">">>
\* <script src="/k.js">
ScriptRootK ==
  <<"<", "s", "c", "r", "i", "p", "t", " ", "s", "r", "c", "=", QUOTE, "/", "k", ".",
    "j", "s", QUOTE, ">">>

ScanPieces ==
  { LinkRootA, LinkRelB, LinkRelFirst, LinkSelfClose, ScriptRootM, ScriptRelN, ScriptUpM,
    ScriptTypeFirst, ScriptInline, ScriptClose, AnchorId, <<LF>>, <<"x">> }

ScanDocs == DocsOf(ScanPieces, MaxScanPieces)

\* the JS files of the build directory: /o/m.js, /o/p/n.js, /o/k.js, /o/u.js
FileM == <<"/", "o", "/", "m", ".", "j", "s">>
FileN == <<"/", "o", "/", "p", "/", "n", ".", "j", "s">>
FileK == <<"/", "o", "/", "k", ".", "j", "s">>
FileU == <<"/", "o", "/", "u", ".", "j", "s">>

\* m and n import each other, n imports k as well, u (imported by nobody) imports m
DefaultImports ==
  [f \in {FileM, FileN, FileK, FileU} |->
     IF f = FileM THEN {FileN}
     ELSE IF f = FileN THEN {FileM, FileK}
     ELSE IF f = FileK THEN {}
     ELSE {FileM}]

\* every import graph over m, n and k
GraphFiles == {FileM, FileN, FileK}
AllGraphs == [GraphFiles -> SUBSET GraphFiles]

\* documents made of distinct <script src> tags, in every order
EntryTags == {ScriptRootM, ScriptRelN, ScriptRootK}
ClosureDocs ==
  {Flatten(ps) : ps \in {q \in UNION {[1..k -> EntryTags] : k \in 0..3} :
                           \A a, b \in 1..Len(q) : a # b => q[a] # q[b]}}

ScanInputs == (ScanDocs \X {DefaultImports}) \cup (ClosureDocs \X AllGraphs)

-----------------------------------------------------------------------------
(* scanHTML on one file.                                                   *)

InitScan ==
  /\ \E in \in ScanInputs : doc = in[1] /\ imports = in[2]
  /\ lexer = parseHTML(<<>>)
  /\ tokens = <<>>
  /\ node = Idle
  /\ pc = "read"
  /\ css = {} /\ js = <<>> /\ entry = {}
  /\ jsPos = 0 /\ scannedFiles = {} /\ scanLog = <<>>
  /\ importList = <<>>
  /\ NoInject
  /\ NoOptimize

WalkState == [lexer |-> lexer, node |-> node, css |-> css, js |-> js,
              entry |-> entry, status |-> "ok"]

\* the walk's state after a step, and where the function is then
SetWalk(st) ==
  /\ lexer' = st.lexer
  /\ node' = st.node
  /\ css' = st.css
  /\ js' = st.js
  /\ entry' = st.entry
  /\ pc' = IF st.status = "ok" THEN "walk" ELSE st.status
  /\ UNCHANGED <<doc, tokens, jsPos, scannedFiles, scanLog, imports, importList,
                 code, indent, charOffset, inserted, opts>>
  /\ UNCHANGED optimizeVars

ClosureState == [js |-> js, pos |-> jsPos, scanned |-> scannedFiles, log |-> scanLog]

SetClosure(st) ==
  /\ js' = st.js
  /\ jsPos' = st.pos
  /\ scannedFiles' = st.scanned
  /\ scanLog' = st.log

\* const code = await fs.promises.readFile(file); parseHTML; html.next()
ScanRead ==
  /\ pc = "read"
  /\ SetWalk(WalkStart(doc))

\* a pass of while (node) on a <link> tag
WalkLink ==
  /\ pc = "walk" /\ IsLink(node)
  /\ SetWalk(WalkNode(doc, htmlFile, WalkState))

\* a pass of while (node) on a <script> tag
WalkScript ==
  /\ pc = "walk" /\ IsScript(node)
  /\ SetWalk(WalkNode(doc, htmlFile, WalkState))

\* a pass of while (node) on any other token
WalkOther ==
  /\ pc = "walk" /\ node.type # "EOF" /\ ~IsLink(node) /\ ~IsScript(node)
  /\ SetWalk(WalkNode(doc, htmlFile, WalkState))

\* the loop ends; const scannedFiles = new Set()
WalkEnd ==
  /\ pc = "walk" /\ node.type = "EOF"
  /\ pc' = "closure"
  /\ jsPos' = 0
  /\ scannedFiles' = {}
  /\ UNCHANGED <<doc, lexer, tokens, node, css, js, entry, scanLog, imports,
                 importList, code, indent, charOffset, inserted, opts>>
  /\ UNCHANGED optimizeVars

\* one callback of allJSImports.forEach, which also visits the elements
\* added while it runs
ClosureStep ==
  /\ pc = "closure" /\ jsPos < Len(js)
  /\ SetClosure(ClosureNode(imports, ClosureState))
  /\ UNCHANGED <<doc, lexer, tokens, node, pc, css, entry, imports, importList,
                 code, indent, charOffset, inserted, opts>>
  /\ UNCHANGED optimizeVars

\* importList[file] = {entry, css, js}
ScanReturn ==
  /\ pc = "closure" /\ jsPos = Len(js)
  /\ importList' = [f \in {htmlFile} |-> [entry |-> entry, css |-> css, js |-> Elems(js)]]
  /\ pc' = "done"
  /\ UNCHANGED <<doc, lexer, tokens, node, css, js, entry, jsPos, scannedFiles,
                 scanLog, imports, code, indent, charOffset, inserted, opts>>
  /\ UNCHANGED optimizeVars

NextScan == ScanRead \/ WalkLink \/ WalkScript \/ WalkOther \/ WalkEnd
            \/ ClosureStep \/ ScanReturn

SpecScan == InitScan /\ [][NextScan]_vars

-----------------------------------------------------------------------------
(* injectHTML(htmlDoc, {headEnd, bodyEnd}).                                *)

\* insert(code, insertion, at) of ../util: code with insertion spliced in at
\* the offset
insert(text, insertion, at) ==
  Slice(text, 0, at) \o insertion \o Slice(text, at, Len(text))

\* `${indent[0] === ' ' ? indent + '  ' : indent + '\t'}${end}\n`
InsertionAlwaysTab(ind, end) == ind \o <<TAB>> \o end \o <<LF>>

Insertion(ind, end) ==
  (IF ind # <<>> /\ Head(ind) = " " THEN ind \o <<" ", " ">> ELSE ind \o <<TAB>>)
    \o end \o <<LF>>

\* node.offset + charOffset
InsertAtTokenOffset(offset, delta) == offset

InsertAt(offset, delta) == offset + delta

\* code = insert(code, insertion, node.offset + charOffset);
\* charOffset += insertion.length
Inserted(st, text, at) ==
  [st EXCEPT !.code = insert(@, text, at),
             !.charOffset = @ + Len(text),
             !.inserted = Append(@, [at |-> at, text |-> text, tag |-> st.node.text,
                                     offset |-> st.node.offset])]

Splice(st, end) ==
  Inserted(st, Insertion(st.indent, end), InsertAt(st.node.offset, st.charOffset))

HeadClose == <<"<", "/", "h", "e", "a", "d", ">">>
BodyClose == <<"<", "/", "b", "o", "d", "y", ">">>

\* headEnd && node.type === 'tagClose' && node.value === '</head>'
AtHeadEnd(o, tok) == o.headEnd # <<>> /\ tok.type = "tagClose" /\ tok.value = HeadClose
AtBodyEnd(o, tok) == o.bodyEnd # <<>> /\ tok.type = "tagClose" /\ tok.value = BodyClose

\* the body of while (node) before node = html.next()
\* st = [lexer, node, code, indent, charOffset, inserted, status]
InjectBody(o, st) ==
  IF st.node.type = "indent" THEN [st EXCEPT !.indent = st.node.value]
  ELSE IF AtHeadEnd(o, st.node) THEN Splice(st, o.headEnd)
  ELSE IF AtBodyEnd(o, st.node) THEN Splice(st, o.bodyEnd)
  ELSE st

\* one pass of while (node)
InjectNode(d, o, st) == Advance(d, InjectBody(o, st))

\* const html = parseHTML(htmlDoc); let code = htmlDoc; let indent = '';
\* let node = html.next(); let charOffset = 0
InjectStart(d) ==
  Advance(d, [lexer |-> parseHTML(d), node |-> Idle, code |-> d, indent |-> <<>>,
              charOffset |-> 0, inserted |-> <<>>, status |-> "ok"])

\* the whole of injectHTML: the walk's state when the loop has ended or the
\* lexer has thrown
RECURSIVE InjectAll(_, _, _)
InjectAll(d, o, st) ==
  IF st.status # "ok" \/ st.node.type = "EOF" THEN st
  ELSE InjectAll(d, o, InjectNode(d, o, st))

MaxInjectPieces == 4

\* </head>, </BODY >, a space, a tab, a line break, text, a tag
InjectPieces ==
  { HeadClose, <<"<", "/", "B", "O", "D", "Y", " ", ">">>, <<" ">>, <<TAB>>, <<LF>>,
    <<"x">>, <<"<", "b", ">">> }

InjectDocs == DocsOf(InjectPieces, MaxInjectPieces)

\* the texts given as headEnd and bodyEnd; <<>> for one that is not given
HeadEndText == <<"<", "H", "/", ">">>
BodyEndText == <<"<", "B", "/", ">", LF>>
InjectOpts == [headEnd : {<<>>, HeadEndText}, bodyEnd : {<<>>, BodyEndText}]

InitInject ==
  /\ doc \in InjectDocs
  /\ opts \in InjectOpts
  /\ lexer = parseHTML(<<>>)
  /\ tokens = <<>>
  /\ node = Idle
  /\ pc = "start"
  /\ code = <<>> /\ indent = <<>> /\ charOffset = 0 /\ inserted = <<>>
  /\ NoScan
  /\ NoOptimize

InjectState == [lexer |-> lexer, node |-> node, code |-> code, indent |-> indent,
                charOffset |-> charOffset, inserted |-> inserted, status |-> "ok"]

SetInject(st) ==
  /\ lexer' = st.lexer
  /\ node' = st.node
  /\ code' = st.code
  /\ indent' = st.indent
  /\ charOffset' = st.charOffset
  /\ inserted' = st.inserted
  /\ pc' = IF st.status = "ok" THEN "inject" ELSE st.status
  /\ UNCHANGED <<doc, tokens, css, js, entry, jsPos, scannedFiles, scanLog, imports,
                 importList, opts>>
  /\ UNCHANGED optimizeVars

\* the statements before the loop
InjectEnter ==
  /\ pc = "start"
  /\ SetInject(InjectStart(doc))

\* a pass on an indent token
InjectIndent ==
  /\ pc = "inject" /\ node.type = "indent"
  /\ SetInject(InjectNode(doc, opts, InjectState))

\* a pass on </head> with headEnd given
InjectHead ==
  /\ pc = "inject" /\ AtHeadEnd(opts, node)
  /\ SetInject(InjectNode(doc, opts, InjectState))

\* a pass on </body> with bodyEnd given
InjectBodyEnd ==
  /\ pc = "inject" /\ AtBodyEnd(opts, node)
  /\ SetInject(InjectNode(doc, opts, InjectState))

\* a pass on any other token
InjectOther ==
  /\ pc = "inject" /\ node.type \notin {"EOF", "indent"}
  /\ ~AtHeadEnd(opts, node) /\ ~AtBodyEnd(opts, node)
  /\ SetInject(InjectNode(doc, opts, InjectState))

\* return code
InjectReturn ==
  /\ pc = "inject" /\ node.type = "EOF"
  /\ pc' = "done"
  /\ UNCHANGED <<doc, lexer, tokens, node, css, js, entry, jsPos, scannedFiles,
                 scanLog, imports, importList, code, indent, charOffset, inserted, opts>>
  /\ UNCHANGED optimizeVars

NextInject == InjectEnter \/ InjectIndent \/ InjectHead \/ InjectBodyEnd
              \/ InjectOther \/ InjectReturn

SpecInject == InitInject /\ [][NextInject]_vars

(***************************************************************************)
(* preloadJS (html.js 177-259): the module scripts of a document, the      *)
(* modules they import, and the preload tags injected for them.            *)
(***************************************************************************)

QuotedModule ==
  <<QUOTE, "m", "o", "d", "u", "l", "e", QUOTE>>

TypeName ==
  <<"t", "y", "p", "e">>

SrcName ==
  <<"s", "r", "c">>

AppURL ==
  <<"/", "a", "p", "p", ".", "j", "s">>

UtilURL ==
  <<"/", "u", "t", "i", "l", ".", "j", "s">>

FileApp ==
  <<"/", "o", "/", "a", "p", "p", ".", "j", "s">>

FileUtil ==
  <<"/", "o", "/", "u", "t", "i", "l", ".", "j", "s">>

PreloadLinkOpen ==
  <<"<", "l", "i", "n", "k", " ", "r", "e", "l", "=", QUOTE, "m", "o", "d",
    "u", "l", "e", "p", "r", "e", "l", "o", "a", "d", QUOTE, " ", "h", "r",
    "e", "f", "=", QUOTE>>

PreloadLinkClose ==
  <<QUOTE, " ", "/", ">">>

FallbackOpen ==
  <<"<", "s", "c", "r", "i", "p", "t", " ", "t", "y", "p", "e", "=", QUOTE,
    "m", "o", "d", "u", "l", "e", QUOTE, " ", "s", "r", "c", "=", QUOTE>>

FallbackClose ==
  <<QUOTE, ">", "<", "/", "s", "c", "r", "i", "p", "t", ">">>

TagEndTypes == {"tagEnd", "tagSelfClose"}

\* what the search for an attribute's value has found: the walker is on an
\* attrValue, or on the end of the tag (the break of lines 200 and 207)
Found(r) == [status |-> "ok", lexer |-> r.lx, node |-> r.tok]

\* node.type on the undefined that next() returns at the end of the input
PastEnd(r) == [status |-> "TypeError", lexer |-> r.lx, node |-> r.tok]

Unlexable(r) == [status |-> "LexError", lexer |-> r.lx, node |-> r.tok]

\* while (node.type !== 'attrValue') {
\*   node = html.next(); if (tagEnd || tagSelfClose) break; }
\* entered on the attrName, which is no attrValue: next() is called at once
RECURSIVE ValueOrEndAt(_, _)
FindValueOrEnd(d, lx) == ValueOrEndAt(d, LexNext(d, lx))

ValueOrEndAt(d, r) ==
  IF r.tok.type = "error" THEN Unlexable(r)
  ELSE IF r.tok.type \in TagEndTypes THEN Found(r)
  ELSE IF r.tok.type = "EOF" THEN PastEnd(r)
  ELSE IF r.tok.type = "attrValue" THEN Found(r)
  ELSE FindValueOrEnd(d, r.lx)

\* src = node.value (line 202) or type = node.value (line 209): the value of
\* the token the search stopped on, quotes included
Assigned(name, v) ==
  v @@ [src |-> IF v.status = "ok" /\ name = SrcName THEN v.node.value ELSE <<>>,
        type |-> IF v.status = "ok" /\ name = TypeName THEN v.node.value ELSE <<>>]

\* let src = '', type = ''; while (!src && !type) { node = html.next(); ... }
\* A pass that assigns one of the two makes the condition false, since a token's
\* value is never empty: the loop ends with at most one of them set.
RECURSIVE ScriptAttrsAt(_, _)
ScriptAttrs(d, lx) == ScriptAttrsAt(d, LexNext(d, lx))

ScriptAttrsAt(d, r) ==
  IF r.tok.type = "error" THEN Assigned(<<>>, Unlexable(r))
  ELSE IF r.tok.type = "EOF" THEN Assigned(<<>>, PastEnd(r))
  ELSE IF r.tok.type = "attrName" /\ r.tok.value \in {SrcName, TypeName}
    THEN Assigned(r.tok.value, FindValueOrEnd(d, r.lx))
  ELSE IF r.tok.type \in TagEndTypes THEN Assigned(<<>>, Found(r))
  ELSE ScriptAttrs(d, r.lx)

\* if (src && type == '"module"') { const resolvedSrc = src.value.replace(...)
\* src is a string, src.value is undefined
Collected(st, a) ==
  IF a.src # <<>> /\ a.type = QuotedModule THEN [st EXCEPT !.status = "TypeError"]
  ELSE st

\* the walk's state: [lexer, node, entries, status]
AfterScript(d, st, a) ==
  IF a.status # "ok"
    THEN [st EXCEPT !.status = a.status, !.lexer = a.lexer, !.node = a.node]
  ELSE IF Collected(st, a).status # "ok" THEN Collected(st, a)
  ELSE Advance(d, Collected([st EXCEPT !.lexer = a.lexer, !.node = a.node], a))

\* a pass of while (node), lines 187-223
PreloadNode(d, st) ==
  IF IsScript(st.node) THEN AfterScript(d, st, ScriptAttrs(d, st.lexer))
  ELSE Advance(d, st)

\* const originalEntries = new Set(); parseHTML(code); html.next()
PreloadStart(d) ==
  Advance(d, [lexer |-> parseHTML(d), node |-> Idle, entries |-> <<>>,
              status |-> "ok"])

RECURSIVE PreloadWalk(_, _)
PreloadWalk(d, st) ==
  IF st.status # "ok" \/ st.node.type = "EOF" THEN st
  ELSE PreloadWalk(d, PreloadNode(d, st))

\* scanJS({file: entry, rootDir, scannedFiles, importList: allModules})
\*   .forEach((file) => allModules.add(file))
AddedModules(st, r) ==
  [scanned |-> r.scanned, list |-> UnionResult(st.list, r.list), log |-> r.log]

\* originalEntries.forEach(...), lines 228-235
RECURSIVE EntryModules(_, _, _)
EntryModules(entries, imp, st) ==
  IF entries = <<>> THEN st
  ELSE EntryModules(Tail(entries), imp,
                    AddedModules(st, scanJS(Head(entries), imp, st)))

NoModules == [scanned |-> {}, list |-> <<>>, log |-> <<>>]

\* if (cssName) ...: nothing declares cssName, reading it throws.  Lines
\* 240-258 (the filter, the sort, the two templates, injectHTML) are never
\* reached and have no counterpart here.
AtCssName(d, m) == [status |-> "ReferenceError", code |-> d, modules |-> m.list]

Planned(d, imp, w) ==
  IF w.status # "ok" THEN [status |-> w.status, code |-> d, modules |-> <<>>]
  ELSE AtCssName(d, EntryModules(w.entries, imp, NoModules))

\* preloadJS({code, rootDir, file, preloadCSS}): [status, code, modules]
preloadJS(d, imp) == Planned(d, imp, PreloadWalk(d, PreloadStart(d)))

\* <script type="module" src="/app.js">
ScriptModuleApp ==
  <<"<", "s", "c", "r", "i", "p", "t", " ", "t", "y", "p", "e", "=", QUOTE,
    "m", "o", "d", "u", "l", "e", QUOTE, " ", "s", "r", "c", "=", QUOTE, "/",
    "a", "p", "p", ".", "j", "s", QUOTE, ">">>

\* <script src="/app.js" type="module">
ScriptAppModule ==
  <<"<", "s", "c", "r", "i", "p", "t", " ", "s", "r", "c", "=", QUOTE, "/",
    "a", "p", "p", ".", "j", "s", QUOTE, " ", "t", "y", "p", "e", "=", QUOTE,
    "m", "o", "d", "u", "l", "e", QUOTE, ">">>

\* <script src="/app.js">
ScriptSrcApp ==
  <<"<", "s", "c", "r", "i", "p", "t", " ", "s", "r", "c", "=", QUOTE, "/",
    "a", "p", "p", ".", "j", "s", QUOTE, ">">>

\* <script type="module">
ScriptTypeModule ==
  <<"<", "s", "c", "r", "i", "p", "t", " ", "t", "y", "p", "e", "=", QUOTE,
    "m", "o", "d", "u", "l", "e", QUOTE, ">">>

\* a script tag cut off after its name
ScriptOpen ==
  <<"<", "s", "c", "r", "i", "p", "t">>

\* <script defer src="/app.js">
ScriptDefer ==
  <<"<", "s", "c", "r", "i", "p", "t", " ", "d", "e", "f", "e", "r", " ",
    "s", "r", "c", "=", QUOTE, "/", "a", "p", "p", ".", "j", "s", QUOTE, ">">>

MaxPreloadPieces == 3

PreloadPieces ==
  {ScriptModuleApp, ScriptAppModule, ScriptSrcApp, ScriptTypeModule, ScriptOpen,
   ScriptDefer, ScriptInline, ScriptClose, HeadClose, BodyClose, <<LF>>}

\* a page whose entry script /app.js imports /util.js
AppDocument ==
  ScriptModuleApp \o ScriptClose \o <<LF>> \o HeadClose \o <<LF>> \o BodyClose

PreloadDocs == DocsOf(PreloadPieces, MaxPreloadPieces) \cup {AppDocument}

PreloadImports == (FileApp :> {FileUtil}) @@ (FileUtil :> {})

InitPreload ==
  /\ doc \in PreloadDocs
  /\ imports = PreloadImports
  /\ lexer = parseHTML(<<>>)
  /\ tokens = <<>>
  /\ node = Idle
  /\ pc = "start"
  /\ css = {} /\ js = <<>> /\ entry = <<>>
  /\ jsPos = 0 /\ scannedFiles = {} /\ scanLog = <<>>
  /\ importList = <<>>
  /\ code = doc /\ indent = <<>> /\ charOffset = 0
  /\ inserted = <<>> /\ opts = <<>>
  /\ NoOptimize

PreloadState == [lexer |-> lexer, node |-> node, entries |-> entry, status |-> "ok"]

SetPreload(st) ==
  /\ lexer' = st.lexer
  /\ node' = st.node
  /\ entry' = st.entries
  /\ pc' = IF st.status = "ok" THEN "walk" ELSE st.status
  /\ UNCHANGED <<doc, tokens, css, js, jsPos, scannedFiles, scanLog, imports,
                 importList, code, indent, charOffset, inserted, opts>>
  /\ UNCHANGED optimizeVars

\* lines 181-186
PreloadEnter ==
  /\ pc = "start"
  /\ SetPreload(PreloadStart(doc))

\* a pass of while (node) on a <script> tag, lines 189-222
PreloadScript ==
  /\ pc = "walk" /\ IsScript(node)
  /\ SetPreload(PreloadNode(doc, PreloadState))

\* a pass of while (node) on any other token, line 222
PreloadOther ==
  /\ pc = "walk" /\ node.type # "EOF" /\ ~IsScript(node)
  /\ SetPreload(PreloadNode(doc, PreloadState))

SetModules(m) ==
  /\ js' = m.list
  /\ scannedFiles' = m.scanned
  /\ scanLog' = m.log

\* the walk is over: lines 226-235, then line 237
PreloadPlan ==
  /\ pc = "walk" /\ node.type = "EOF"
  /\ SetModules(EntryModules(entry, imports, NoModules))
  /\ pc' = "ReferenceError"
  /\ UNCHANGED <<doc, lexer, tokens, node, css, entry, jsPos, imports,
                 importList, code, indent, charOffset, inserted, opts>>
  /\ UNCHANGED optimizeVars

NextPreload == PreloadEnter \/ PreloadScript \/ PreloadOther \/ PreloadPlan

SpecPreload == InitPreload /\ [][NextPreload]_vars

-----------------------------------------------------------------------------
(* The plugin: optimizeFile and optimize (vanilla.js).                     *)

\* path.extname(p)
basename(p) ==
  LET cuts == {k \in 1..Len(p) : p[k] = "/"}
  IN  IF cuts = {} THEN p
      ELSE SubSeq(p, (CHOOSE k \in cuts : \A j \in cuts : j <= k) + 1, Len(p))

DotsOf(b) == {k \in 2..Len(b) : b[k] = "."}

extnameOf(b, dots) ==
  IF dots = {} THEN <<>>
  ELSE SubSeq(b, CHOOSE k \in dots : \A j \in dots : j <= k, Len(b))

extname(p) == extnameOf(basename(p), DotsOf(basename(p)))

\* s.endsWith(suffix)
endsWith(s, suffix) ==
  Len(s) >= Len(suffix) /\ SubSeq(s, Len(s) - Len(suffix) + 1, Len(s)) = suffix

DotCss == <<".", "c", "s", "s">>
DotJs == <<".", "j", "s">>
DotMjs == <<".", "m", "j", "s">>
DotHtml == <<".", "h", "t", "m", "l">>
ProxySuffix == <<".", "c", "s", "s", ".", "p", "r", "o", "x", "y", ".", "j", "s">>

\* the files glob finds under the build directory, in its (sorted) order:
\* /o/a.css, /o/m.js, /o/p/i.html, /o/s.css.proxy.js
CssFile == <<"/", "o", "/", "a", ".", "c", "s", "s">>
ProxyFile == <<"/", "o", "/", "s", ".", "c", "s", "s", ".", "p", "r", "o", "x", "y", ".", "j",
    "s">>
allFiles == <<CssFile, FileM, htmlFile, ProxyFile>>
Files == Elems(allFiles)

\* path.join(buildDirectory, options.combinedCSSName), with the default name
combinedCSSName == <<"/", "i", "m", "p", "o", "r", "t", "e", "d", "-", "s", "t", "y", "l", "e", "s",
    ".", "c", "s", "s">>
outputCSS == join(buildDirectory, combinedCSSName)

\* headEnd: `<link type="stylesheet" rel="${options.combinedCSSName}" />\n`
CombinedLink ==
  <<"<", "l", "i", "n", "k", " ", "t", "y", "p", "e", "=", QUOTE, "s", "t", "y", "l",
    "e", "s", "h", "e", "e", "t", QUOTE, " ", "r", "e", "l", "=", QUOTE>> \o combinedCSSName \o <<QUOTE, " ", "/", ">", LF>>

\* the external transforms, as marks on the text they are given
minifyCss(text) == <<"csso">> \o text
minifyHtml(text) == <<"html-minifier">> \o text
esbuildTransform(text) == <<"esbuild">> \o text
transformCSSProxy(text) == <<"css-proxy">> \o text

\* how a call of optimizeFile leaves the disk and its own promise: returned
\* (resolved), thrown (rejected with err) or suspended at await with code
Returned(d) == [status |-> "resolved", value |-> <<>>, disk |-> d]
Thrown(d, err) == [status |-> "rejected", value |-> <<err>>, disk |-> d]
Suspended(d, text) == [status |-> "awaiting", value |-> text, disk |-> d]
Written(d, file, text) == Returned([d EXCEPT ![file] = text])

\* case '.css'
optimizeCSS(file, o, d, throws) ==
  IF ~o.minifyCSS THEN Returned(d)
  ELSE IF throws THEN Thrown(d, "minifyCss")
  ELSE Written(d, file, minifyCss(d[file]))

\* case '.js', '.mjs', up to the await
EmbedCSS(o, text) == IF o.preloadCSS THEN transformCSSProxy(text) ELSE text

MinifyJS(file, o, d, text) ==
  IF o.minifyJS THEN Suspended(d, text) ELSE Written(d, file, text)

optimizeJS(file, o, d) ==
  IF ~(o.preloadCSS \/ o.minifyJS) THEN Returned(d)
  ELSE MinifyJS(file, o, d, EmbedCSS(o, d[file]))

\* case '.html'
MinifyHTML(file, o, d, throws, text) ==
  IF ~o.minifyHTML THEN Written(d, file, text)
  ELSE IF throws THEN Thrown(d, "minifyHtml")
  ELSE Written(d, file, minifyHtml(text))

\* preloadJS is not bound in vanilla.js: evaluating the call throws
PreloadModules(file, o, d, throws, text) ==
  IF o.preloadModules THEN Thrown(d, "ReferenceError")
  ELSE MinifyHTML(file, o, d, throws, text)

AfterInject(file, o, d, throws, r) ==
  IF r.status # "ok" THEN Thrown(d, r.status)
  ELSE PreloadModules(file, o, d, throws, r.code)

PreloadCSS(file, o, d, throws) ==
  IF o.preloadCSS
  THEN AfterInject(file, o, d, throws,
         InjectAll(d[file], [headEnd |-> CombinedLink, bodyEnd |-> <<>>],
                   InjectStart(d[file])))
  ELSE PreloadModules(file, o, d, throws, d[file])

optimizeHTML(file, o, d, throws) ==
  IF ~(o.preloadCSS \/ o.preloadModules \/ o.minifyHTML) THEN Returned(d)
  ELSE PreloadCSS(file, o, d, throws)

\* switch (baseExt)
Dispatch(file, baseExt, o, d, throws) ==
  IF baseExt = DotCss THEN optimizeCSS(file, o, d, throws)
  ELSE IF baseExt \in {DotJs, DotMjs} THEN optimizeJS(file, o, d)
  ELSE IF baseExt = DotHtml THEN optimizeHTML(file, o, d, throws)
  ELSE Returned(d)

\* optimizeFile, from its call to its return, throw or first await
optimizeFile(file, o, d, throws) ==
  Dispatch(file, MapLower(extname(file)), o, d, throws)

\* the tasks that hold one of the queue's slots
RunningNone(t) == 0
Running(t) == Cardinality({f \in DOMAIN t : t[f].status \in {"awaiting", "resolved", "rejected"}})

\* p-queue starts the next task while a slot is free
\* st = [disk, task, queue]
Started(st, file, r) ==
  [disk |-> r.disk,
   task |-> [st.task EXCEPT ![file] = [status |-> r.status, value |-> r.value]],
   queue |-> Tail(st.queue)]

RECURSIVE StartTasks(_, _, _, _)
StartTasks(o, w, flt, st) ==
  IF st.queue = <<>> \/ Running(st.task) >= w THEN st
  ELSE StartTasks(o, w, flt,
         Started(st, Head(st.queue),
                 optimizeFile(Head(st.queue), o, st.disk, Head(st.queue) \in flt)))

\* allFiles.filter((file) => (options.preloadCSS && !file.endsWith('.css.proxy.js')) || true)
KeepsFile(o, file) == (o.preloadCSS /\ ~endsWith(file, ProxySuffix)) \/ TRUE
FilesToOptimize(o) == SelectSeq(allFiles, LAMBDA f : KeepsFile(o, f))

Queued == [status |-> "queued", value |-> <<>>]
NoTask == [status |-> "none", value |-> <<>>]

\* the for loop of parallelWorkQueue.add(...)
AddTasks(o, w, flt, d, t, files) ==
  StartTasks(o, w, flt,
    [disk |-> d, task |-> [f \in DOMAIN t |-> IF f \in Elems(files) THEN Queued ELSE t[f]],
     queue |-> files])

\* .catch((err) => { log(`Error: ${file} ${err.toString()}`, 'error'); })
CaughtSilently(lg, file, err) == lg
Caught(lg, file, err) == Append(lg, [file |-> file, err |-> err])

\* a task's promise settles: the catch handler has run and the slot is free
Settled(t, file) ==
  [t EXCEPT ![file] = IF @.status = "rejected" THEN [status |-> "failed", value |-> @.value]
                      ELSE [status |-> "done", value |-> <<>>]]

\* scanHTML on the HTML files of allFiles: the walk, then the closure
ClosureOf(imp, w) ==
  ClosureAll(imp, [js |-> w.js, pos |-> 0, scanned |-> {}, log |-> <<>>])

ManifestOf(file, w, c) ==
  [f \in {file} |-> [entry |-> w.entry, css |-> w.css, js |-> Elems(c.js)]]

ScanOf(file, imp, w) ==
  IF w.status # "ok" THEN [status |-> w.status, manifest |-> <<>>]
  ELSE [status |-> "ok", manifest |-> ManifestOf(file, w, ClosureOf(imp, w))]

scanHTMLNothing(file, d, imp) == [status |-> "ok", manifest |-> <<>>]
scanHTML(file, d, imp) == ScanOf(file, imp, WalkAll(d[file], file, WalkStart(d[file])))

\* allFiles.filter((f) => path.extname(f) === '.html')
HtmlFiles == {f \in Files : extname(f) = DotHtml}

\* await fs.promises.readFile(file, 'utf-8') rejects on a file that cannot be
\* read; the rejection passes through Promise.all to optimize's await
ScanPhaseSkipsUnreadable(file, d, imp, unread) ==
  IF file \in unread THEN [status |-> "ok", manifest |-> <<>>]
  ELSE scanHTML(file, d, imp)
ScanPhase(file, d, imp, unread) ==
  IF file \in unread THEN [status |-> "EACCES", manifest |-> <<>>]
  ELSE scanHTML(file, d, imp)

\* buildImportCSS(manifest, minifyCSS) of lib/css: the CSS files of the
\* manifest that are on disk, concatenated, then minified on request
RECURSIVE Concatenated(_, _, _)
Concatenated(d, files, wanted) ==
  IF files = <<>> THEN <<>>
  ELSE (IF Head(files) \in wanted THEN d[Head(files)] ELSE <<>>)
       \o Concatenated(d, Tail(files), wanted)

CSSOf(manifest) == UNION {manifest[f].css : f \in DOMAIN manifest}

MinifiedOnRequest(text, minify) ==
  IF minify /\ text # <<>> THEN minifyCss(text) ELSE text

buildImportCSS(manifest, minify, d) ==
  MinifiedOnRequest(Concatenated(d, allFiles, CSSOf(manifest)), minify)

\* formatManifest({manifest, buildDirectory, generatedFiles, preloadCSS}) of util
formatManifest(manifest, generated, preloadCSS) ==
  <<[manifest |-> manifest, generatedFiles |-> generated, preloadCSS |-> preloadCSS]>>

\* the contents of the build directory before optimize
CssText == <<"c">>
JsText == <<"j">>
ProxyText == <<"p">>

\* an entry document that links /a.css and loads /m.js, one without
\* references, and one with an inline script
DocEntry == LinkRootA \o <<LF>> \o ScriptRootM \o ScriptClose \o <<LF, TAB>> \o HeadClose
DocPlain == HeadClose \o <<LF>>
DocInline == ScriptInline \o ScriptClose
OptDocs == {DocEntry, DocPlain, DocInline}

OriginalDisk(d) ==
  [f \in Files \cup {outputCSS} |->
     IF f = CssFile THEN CssText
     ELSE IF f = FileM THEN JsText
     ELSE IF f = htmlFile THEN d
     ELSE IF f = ProxyFile THEN ProxyText
     ELSE <<>>]

MaxWorkers == 2

Options == [minifyJS : BOOLEAN, minifyHTML : BOOLEAN, minifyCSS : BOOLEAN,
            preloadCSS : BOOLEAN, preloadModules : BOOLEAN]

InitOptimize ==
  /\ doc \in OptDocs
  /\ options \in Options
  /\ workers \in 1..MaxWorkers
  /\ faulty \in SUBSET Files
  /\ unreadable \in SUBSET HtmlFiles
  /\ disk = OriginalDisk(doc)
  /\ task = [f \in Files |-> NoTask]
  /\ queue = <<>>
  /\ log = <<>>
  /\ service = "none"
  /\ generatedFiles = <<>>
  /\ manifestFile = <<>>
  /\ pc = "setup"
  /\ imports = DefaultImports
  /\ importList = <<>>
  /\ lexer = parseHTML(<<>>) /\ tokens = <<>> /\ node = Idle
  /\ css = {} /\ js = <<>> /\ entry = {}
  /\ jsPos = 0 /\ scannedFiles = {} /\ scanLog = <<>>
  /\ NoInject

\* const esbuildService = await esbuild.startService(); await init; glob.sync
Setup ==
  /\ pc = "setup"
  /\ service' = "started"
  /\ pc' = "scan"
  /\ UNCHANGED <<options, workers, faulty, unreadable, disk, task, queue, log, generatedFiles,
                 manifestFile, importList>>
  /\ UNCHANGED htmlVars

\* esbuild.startService() rejects
SetupFails ==
  /\ pc = "setup"
  /\ pc' = "rejected"
  /\ UNCHANGED <<options, workers, faulty, unreadable, disk, task, queue, log, service,
                 generatedFiles, manifestFile, importList>>
  /\ UNCHANGED htmlVars

\* const manifest = await scanHTML(...): the scan resolves
ScanResolves ==
  /\ pc = "scan"
  /\ ScanPhase(htmlFile, disk, imports, unreadable).status = "ok"
  /\ importList' = ScanPhase(htmlFile, disk, imports, unreadable).manifest
  /\ pc' = "dispatch"
  /\ UNCHANGED optimizeVars
  /\ UNCHANGED htmlVars

\* the scan rejects: a file cannot be read, or the walk throws
ScanRejects ==
  /\ pc = "scan"
  /\ ScanPhase(htmlFile, disk, imports, unreadable).status # "ok"
  /\ pc' = "rejected"
  /\ UNCHANGED <<importList>>
  /\ UNCHANGED optimizeVars
  /\ UNCHANGED htmlVars

SetTasks(st) ==
  /\ disk' = st.disk
  /\ task' = st.task
  /\ queue' = st.queue

\* new PQueue, the for loop, up to await parallelWorkQueue.onIdle()
AddAllTasks ==
  /\ pc = "dispatch"
  /\ SetTasks(AddTasks(options, workers, faulty, disk, task, FilesToOptimize(options)))
  /\ pc' = "idle"
  /\ UNCHANGED <<options, workers, faulty, unreadable, log, service, generatedFiles, manifestFile,
                 importList>>
  /\ UNCHANGED htmlVars

\* await esbuildService.transform(...) resolves; code = minified.js; write
TransformResolves(file) ==
  /\ task[file].status = "awaiting"
  /\ service = "started" /\ file \notin faulty
  /\ disk' = [disk EXCEPT ![file] = esbuildTransform(task[file].value)]
  /\ task' = [task EXCEPT ![file] = [status |-> "resolved", value |-> <<>>]]
  /\ UNCHANGED <<options, workers, faulty, unreadable, queue, log, service, generatedFiles,
                 manifestFile, importList, pc>>
  /\ UNCHANGED htmlVars

\* await esbuildService.transform(...) rejects
TransformRejects(file) ==
  /\ task[file].status = "awaiting"
  /\ service # "started" \/ file \in faulty
  /\ task' = [task EXCEPT ![file] = [status |-> "rejected", value |-> <<"esbuild">>]]
  /\ UNCHANGED <<options, workers, faulty, unreadable, disk, queue, log, service, generatedFiles,
                 manifestFile, importList, pc>>
  /\ UNCHANGED htmlVars

\* a task that returned settles; the queue starts the next one
TaskDone(file) ==
  /\ task[file].status = "resolved"
  /\ SetTasks(StartTasks(options, workers, faulty,
                         [disk |-> disk, task |-> Settled(task, file), queue |-> queue]))
  /\ UNCHANGED <<options, workers, faulty, unreadable, log, service, generatedFiles, manifestFile,
                 importList, pc>>
  /\ UNCHANGED htmlVars

\* a task that threw is caught and logged; the queue starts the next one
TaskFailed(file) ==
  /\ task[file].status = "rejected"
  /\ log' = Caught(log, file, task[file].value[1])
  /\ SetTasks(StartTasks(options, workers, faulty,
                         [disk |-> disk, task |-> Settled(task, file), queue |-> queue]))
  /\ UNCHANGED <<options, workers, faulty, unreadable, service, generatedFiles, manifestFile,
                 importList, pc>>
  /\ UNCHANGED htmlVars

\* fs.writeFileSync(.../optimize-manifest.json, JSON.stringify(formatManifest(...)))
WriteManifest(generated) ==
  /\ manifestFile' = formatManifest(importList, generated, options.preloadCSS)
  /\ generatedFiles' = generated
  /\ pc' = "done"

\* onIdle() resolves; esbuildService.stop(); nothing to combine: the manifest
Idle_NoCSS ==
  /\ pc = "idle" /\ queue = <<>> /\ Running(task) = 0
  /\ ~options.preloadCSS \/ buildImportCSS(importList, options.minifyCSS, disk) = <<>>
  /\ service' = "stopped"
  /\ WriteManifest(generatedFiles)
  /\ UNCHANGED <<options, workers, faulty, unreadable, disk, task, queue, log, importList>>
  /\ UNCHANGED htmlVars

\* onIdle() resolves; esbuildService.stop(); await mkdirp(...)
Idle_CSS ==
  /\ pc = "idle" /\ queue = <<>> /\ Running(task) = 0
  /\ options.preloadCSS /\ buildImportCSS(importList, options.minifyCSS, disk) # <<>>
  /\ service' = "stopped"
  /\ pc' = "css"
  /\ UNCHANGED <<options, workers, faulty, unreadable, disk, task, queue, log, generatedFiles,
                 manifestFile, importList>>
  /\ UNCHANGED htmlVars

\* fs.writeFileSync(outputCSS, combinedCSS); generatedFiles.push; the manifest
WriteCombinedCSS ==
  /\ pc = "css"
  /\ disk' = [disk EXCEPT ![outputCSS] = buildImportCSS(importList, options.minifyCSS, disk)]
  /\ WriteManifest(Append(generatedFiles, outputCSS))
  /\ UNCHANGED <<options, workers, faulty, unreadable, task, queue, log, service, importList>>
  /\ UNCHANGED htmlVars

NextOptimize ==
  \/ Setup
  \/ SetupFails
  \/ ScanResolves
  \/ ScanRejects
  \/ AddAllTasks
  \/ \E file \in Files : TransformResolves(file)
  \/ \E file \in Files : TransformRejects(file)
  \/ \E file \in Files : TaskDone(file)
  \/ \E file \in Files : TaskFailed(file)
  \/ Idle_NoCSS
  \/ Idle_CSS
  \/ WriteCombinedCSS

SpecOptimize == InitOptimize /\ [][NextOptimize]_vars

-----------------------------------------------------------------------------
(* What a document says, read off its token sequence: the tags and, per    *)
(* tag, the attributes that have a value.                                  *)

RECURSIVE TokensFrom(_, _)
RECURSIVE TokensAt(_, _)
TokensFrom(d, lx) == TokensAt(d, LexNext(d, lx))
TokensAt(d, r) ==
  IF r.tok.type \in {"EOF", "error"} THEN <<>>
  ELSE <<r.tok>> \o TokensFrom(d, r.lx)

\* every token of d up to the end of the buffer or the lexer's error
AllTokens(d) == TokensFrom(d, parseHTML(d))

\* the concatenation of the tokens' texts
RECURSIVE TextOf(_)
TextOf(toks) == IF toks = <<>> THEN <<>> ELSE Head(toks).text \o TextOf(Tail(toks))

NoTag == [tag |-> <<>>, attrs |-> <<>>, pend |-> <<>>]

\* the tag being read after token t
TagAfter(cur, t) ==
  CASE t.type = "tagOpen" -> [tag |-> t.value, attrs |-> <<>>, pend |-> <<>>]
    [] t.type = "attrName" -> [cur EXCEPT !.pend = t.value]
    [] t.type = "attrValue" ->
         [cur EXCEPT !.attrs = Append(@, [name |-> cur.pend, value |-> Unquote(t.value)]),
                     !.pend = <<>>]
    [] t.type \in {"tagEnd", "tagSelfClose"} -> NoTag
    [] OTHER -> cur

\* the tags of a token sequence, each [tag, attrs], a tag ending at its tagEnd,
\* its tagSelfClose, the next tagOpen or the end of the tokens
RECURSIVE TagsIn(_, _)
TagsIn(toks, cur) ==
  IF toks = <<>> THEN (IF cur.tag = <<>> THEN <<>> ELSE <<cur>>)
  ELSE IF Head(toks).type \in {"tagEnd", "tagSelfClose", "tagOpen"} /\ cur.tag # <<>>
       THEN <<cur>> \o TagsIn(Tail(toks), TagAfter(cur, Head(toks)))
       ELSE TagsIn(Tail(toks), TagAfter(cur, Head(toks)))

TagsOf(d) == TagsIn(AllTokens(d), NoTag)

LinkTag == <<"<", "l", "i", "n", "k">>
ScriptTag == <<"<", "s", "c", "r", "i", "p", "t">>
Href == <<"h", "r", "e", "f">>
Src == <<"s", "r", "c">>

\* the values of the attribute `name` on the tags `tag` of the given tags
AttrValuesIn(tags, tag, name) ==
  UNION {{tags[k].attrs[j].value : j \in {i \in 1..Len(tags[k].attrs) :
                                            tags[k].attrs[i].name = name}} :
         k \in {i \in 1..Len(tags) : tags[i].tag = tag}}

\* does every tag `tag` carry the attribute `name`
AllHave(tags, tag, name) ==
  \A k \in 1..Len(tags) :
    tags[k].tag = tag => \E j \in 1..Len(tags[k].attrs) : tags[k].attrs[j].name = name

\* is the attribute `name` the only attribute of every tag `tag`
OnlyHave(tags, tag, name) ==
  \A k \in 1..Len(tags) :
    tags[k].tag = tag => /\ Len(tags[k].attrs) = 1
                         /\ tags[k].attrs[1].name = name
                         /\ tags[k].pend = <<>>

\* R of the specification: rooted paths against the build directory, others
\* against the directory of the HTML file
RootedOrRelative(x) ==
  IF Head(x) = "/" THEN join(buildDirectory, x) ELSE join(dirname(htmlFile), x)

ExpectedPaths(tags, tag, name) == {RootedOrRelative(v) : v \in AttrValuesIn(tags, tag, name)}

\* the files reachable from S through static imports
RECURSIVE Reach(_, _)
ReachStep(S, imp) == S \cup UNION {ImportsOf(imp, f) : f \in S}
Reach(S, imp) == IF ReachStep(S, imp) = S THEN S ELSE Reach(ReachStep(S, imp), imp)

NoDuplicates(seq) == \A a, b \in 1..Len(seq) : a # b => seq[a] # seq[b]

\* the value of the last indent token that starts before the offset
IndentBefore(toks, offset) ==
  IF \A k \in 1..Len(toks) : ~(toks[k].type = "indent" /\ toks[k].offset < offset)
  THEN <<>>
  ELSE toks[CHOOSE k \in 1..Len(toks) :
              /\ toks[k].type = "indent" /\ toks[k].offset < offset
              /\ \A j \in (k + 1)..Len(toks) :
                   ~(toks[j].type = "indent" /\ toks[j].offset < offset)].value

\* one more level of an indent: two spaces after a space indent, else a tab
OneLevelMore(ind) ==
  IF ind # <<>> /\ Head(ind) = " " THEN ind \o <<" ", " ">> ELSE ind \o <<TAB>>

\* is the text the closing tag `name` (upper or lower case, spaces allowed)
IsClosing(text, name) == StripSpace(MapLower(text)) = name

\* the closing-tag tokens that get an insertion under the options
Targets(toks, o) ==
  {k \in 1..Len(toks) :
     /\ toks[k].type = "tagClose"
     /\ \/ o.headEnd # <<>> /\ IsClosing(toks[k].text, HeadClose)
        \/ o.bodyEnd # <<>> /\ IsClosing(toks[k].text, BodyClose)}

\* the text with the insertions taken out again, last one first
RECURSIVE Removed(_, _)
Removed(text, ins) ==
  IF ins = <<>> THEN text
  ELSE Removed(Slice(text, 0, ins[Len(ins)].at)
                 \o Slice(text, ins[Len(ins)].at + Len(ins[Len(ins)].text), Len(text)),
               SubSeq(ins, 1, Len(ins) - 1))

\* the total length of the first n insertions
RECURSIVE LengthOfFirst(_, _)
LengthOfFirst(ins, n) == IF n = 0 THEN 0 ELSE Len(ins[n].text) + LengthOfFirst(ins, n - 1)

-----------------------------------------------------------------------------
(* Claims *)

\* C1: in a document whose <link> tags all carry href and whose <script> tags
\* all carry src, the paths scanHTML adds to css are those of the href values
\* of the <link> tags and the paths it adds to entry and js are those of the
\* src values of the <script> tags, wherever the attribute stands in its tag;
\* the value of another attribute is never added.
C1_Paths(tags) ==
  AllHave(tags, LinkTag, Href) /\ AllHave(tags, ScriptTag, Src) =>
    /\ css \subseteq ExpectedPaths(tags, LinkTag, Href)
    /\ entry \subseteq ExpectedPaths(tags, ScriptTag, Src)
    /\ pc \in {"closure", "done"} =>
         /\ css = ExpectedPaths(tags, LinkTag, Href)
         /\ entry = ExpectedPaths(tags, ScriptTag, Src)
C1_ValueOfNamedAttribute == pc # "read" => C1_Paths(TagsOf(doc))

\* C2: in a document none of whose <link> tags has href and none of whose
\* <script> tags has src, scanHTML adds nothing to css, js and entry and
\* raises no error.
C2_Nothing(tags) ==
  AttrValuesIn(tags, LinkTag, Href) = {} /\ AttrValuesIn(tags, ScriptTag, Src) = {} =>
    /\ pc # "TypeError"
    /\ css = {} /\ js = <<>> /\ entry = {}
C2_TagWithoutRefAddsNothing == pc # "read" => C2_Nothing(TagsOf(doc))

\* C3: when scanHTML returns for a document whose <link> tags have href as
\* their only attribute and whose <script> tags have src as their only
\* attribute, the file's css is the set of R(P), its entry the set of R(Q),
\* and its js contains every R(Q).
C3_Result(tags) ==
  OnlyHave(tags, LinkTag, Href) /\ OnlyHave(tags, ScriptTag, Src) =>
    /\ importList[htmlFile].css = ExpectedPaths(tags, LinkTag, Href)
    /\ importList[htmlFile].entry = ExpectedPaths(tags, ScriptTag, Src)
    /\ ExpectedPaths(tags, ScriptTag, Src) \subseteq importList[htmlFile].js
C4_ClosureTerminatesExact ==
  /\ NoDuplicates(scanLog)
  /\ pc = "closure" =>
       /\ jsPos <= Len(js)
       /\ NoDuplicates(js)
       /\ Elems(js) \subseteq Reach(entry, imports)
  /\ pc = "done" =>
       /\ jsPos = Len(js)
       /\ Elems(js) = Reach(entry, imports)

\* a finished scan of a cycle (m imports n, n imports m) with a file outside js
C4_Witness ==
  /\ pc = "done"
  /\ FileM \in entry
  /\ FileN \in ImportsOf(imports, FileM) /\ FileM \in ImportsOf(imports, FileN)
  /\ FileN \notin entry /\ FileN \in Elems(js)
  /\ \E f \in DOMAIN imports : f \notin Elems(js)

\* C5: at every point of the scan entry is a subset of js, and so it is in
\* every entry of the manifest.
C5_EntrySubsetJS ==
  /\ entry \subseteq Elems(js)
  /\ \A f \in DOMAIN importList : importList[f].entry \subseteq importList[f].js

\* the closure has added files to js beyond a non-empty entry
C5_Witness ==
  /\ pc \in {"closure", "done"}
  /\ entry # {}
  /\ Elems(js) # entry

\* C6: every insertion injectHTML has made is the indent current at its
\* closing tag plus one level, then headEnd (for </head>) or bodyEnd (for
\* </body>), then a line break; in the result it ends right where that closing
\* tag starts; taking the insertions out gives back the document; and when
\* injectHTML returns, every </head> and </body> token whose text was given
\* has its insertion.
C6_One(toks, i) ==
  /\ i.text = OneLevelMore(IndentBefore(toks, i.offset))
                \o (IF IsClosing(i.tag, HeadClose) THEN opts.headEnd ELSE opts.bodyEnd)
                \o <<LF>>
  /\ HasAt(doc, i.offset, i.tag)
  /\ HasAt(code, i.at, i.text)
  /\ HasAt(code, i.at + Len(i.text), i.tag)
C6_All(toks) ==
  /\ \A k \in 1..Len(inserted) : C6_One(toks, inserted[k])
  /\ Removed(code, inserted) = doc
  /\ pc = "done" => {inserted[k].offset : k \in 1..Len(inserted)}
                      = {toks[k].offset : k \in Targets(toks, opts)}
C7_InsertionsShiftedByEarlier ==
  /\ \A k \in 1..Len(inserted) :
       inserted[k].at = inserted[k].offset + LengthOfFirst(inserted, k - 1)
  /\ \A k \in 1..(Len(inserted) - 1) :
       inserted[k + 1].at >= inserted[k].at + Len(inserted[k].text) + Len(inserted[k].tag)
  /\ pc = "done" =>
       \A k \in 1..Len(inserted) :
         Slice(code, inserted[k].at, inserted[k].at + Len(inserted[k].text) + Len(inserted[k].tag))
           = inserted[k].text \o inserted[k].tag

\* injectHTML has returned after inserting headEnd and, later, bodyEnd
C7_Witness ==
  /\ pc = "done"
  /\ Len(inserted) >= 2
  /\ IsClosing(inserted[1].tag, HeadClose)
  /\ IsClosing(inserted[2].tag, BodyClose)

\* C8: the tokenizer never raises, whatever the text.
C8_TokenizerNeverRaises == pc # "LexError"

\* C9: when the tokenizer has reached the end of the document, the texts of
\* its tokens, concatenated in order, are the document.
C9_RoundTrip == pc = "done" => TextOf(tokens) = doc

\* a tokenized document with an opening and a closing tag whose values
\* differ from their texts
C9_Witness ==
  /\ pc = "done"
  /\ \E a, b \in 1..Len(tokens) :
       /\ tokens[a].type = "tagOpen" /\ tokens[a].value # tokens[a].text
       /\ tokens[b].type = "tagClose"
       /\ a < b

\* C10: a task whose transform fails leaves its file as it was and is logged
\* with the file's path; the failure of a task never makes optimize reject nor
\* stops the queue (while tasks wait, one is running, so optimize is never
\* stuck before the manifest); at the end every task has settled, every task
\* that did not fail has returned, and the manifest is written
Failed(f) == task[f].status = "failed"

Logged(f) == \E k \in 1..Len(log) : log[k].file = f /\ log[k].err = task[f].value[1]

AsBefore(f) == disk[f] = OriginalDisk(doc)[f]

C10_FailureIsIsolated ==
  /\ \A f \in Files : task[f].status \in {"rejected", "failed"} => AsBefore(f)
  /\ \A f \in Files : Failed(f) => Logged(f)
  /\ \A k \in 1..Len(log) : Failed(log[k].file)
  /\ pc = "rejected" => \A f \in Files : task[f].status = "none"
  /\ pc = "idle" /\ queue # <<>> => Running(task) > 0
  /\ pc \in {"css", "done"} => \A f \in Files : task[f].status \in {"done", "failed"}
  /\ pc = "done" => manifestFile # <<>>

\* a run that ended with one task failed and logged, another returned with
\* its file rewritten, and the manifest written
C10_Witness ==
  /\ pc = "done"
  /\ manifestFile # <<>>
  /\ \E f \in Files : Failed(f) /\ Logged(f) /\ AsBefore(f)
  /\ \E g \in Files : task[g].status = "done" /\ ~AsBefore(g)

\* C11: no optimize task is queued or started before the scan has resolved;
\* from then on the manifest has an entry for every HTML file and stays what
\* the scan of the files as they were before any task made it
Dispatched(f) == task[f].status # "none"

C11_ScanBeforeTasks ==
  /\ (\E f \in Files : Dispatched(f)) =>
       /\ pc \notin {"setup", "scan"}
       /\ HtmlFiles \subseteq DOMAIN importList
  /\ pc \in {"dispatch", "idle", "css", "done"} =>
       /\ HtmlFiles \subseteq DOMAIN importList
       /\ importList = scanHTML(htmlFile, OriginalDisk(doc), imports).manifest

\* a task is suspended in the minifier, the HTML file's task has rewritten
\* the file, and the manifest still has the file's entry
C11_Witness ==
  /\ pc = "idle"
  /\ \E f \in Files : task[f].status = "awaiting"
  /\ task[htmlFile].status = "done" /\ ~AsBefore(htmlFile)
  /\ htmlFile \in DOMAIN importList

\* C12: when the HTML file cannot be read, optimize gets no further than the
\* scan, where it rejects: no task is dispatched, no file is rewritten and no
\* manifest is written
C12_UnreadableFileFailsScan ==
  htmlFile \in unreadable =>
    /\ pc \in {"setup", "scan", "rejected"}
    /\ \A f \in Files : ~Dispatched(f)
    /\ disk = OriginalDisk(doc)
    /\ manifestFile = <<>>

\* optimize has rejected in the scan phase on an unreadable file
C12_Witness ==
  /\ pc = "rejected" /\ service = "started"
  /\ htmlFile \in unreadable

\* C16: with preloadCSS no task is dispatched for a file that ends in
\* .css.proxy.js and the file stays as it was; without preloadCSS the file is
\* minified like any other .js file
C16_ProxyFilesSkipped ==
  /\ options.preloadCSS => ~Dispatched(ProxyFile) /\ AsBefore(ProxyFile)
  /\ ~options.preloadCSS /\ options.minifyJS /\ ProxyFile \notin faulty /\ pc = "done" =>
       disk[ProxyFile] = esbuildTransform(ProxyText)

\* C20: the service is stopped, and the combined stylesheet and the manifest
\* are written, only when no task is queued, running or unsettled; a task that
\* waits for the service's transform finds the service started
InFlight(f) == task[f].status \in {"queued", "awaiting", "resolved", "rejected"}

NoTaskInFlight == queue = <<>> /\ \A f \in Files : ~InFlight(f)

C20_StopAfterTasksSettle ==
  /\ service = "stopped" => NoTaskInFlight /\ pc \in {"css", "done"}
  /\ \A f \in Files : task[f].status = "awaiting" => service = "started"
  /\ disk[outputCSS] # <<>> => NoTaskInFlight /\ service = "stopped"
  /\ manifestFile # <<>> => NoTaskInFlight /\ service = "stopped"

\* a run in which a task waited for the minifier has stopped the service and
\* written the combined stylesheet and the manifest
C20_Witness ==
  /\ pc = "done" /\ service = "stopped"
  /\ disk[outputCSS] # <<>> /\ manifestFile # <<>>
  /\ disk[FileM] = esbuildTransform(transformCSSProxy(JsText))

\* C17: the first token starts at offset 0, every later token starts where
\* the one before it ends, and when the tokenizer has reached the end the last
\* token ends at the end of the document
EndOf(tok) == tok.offset + Len(tok.text)

C17_OffsetsContiguous ==
  /\ \A k \in 1..Len(tokens) :
       tokens[k].offset = IF k = 1 THEN 0 ELSE EndOf(tokens[k - 1])
  /\ pc = "done" => IF tokens = <<>> THEN doc = <<>>
                    ELSE EndOf(tokens[Len(tokens)]) = Len(doc)

\* a tokenized document of three tokens or more, one of them a tag opening
\* whose value is shorter than its text
C17_Witness ==
  /\ pc = "done" /\ Len(tokens) >= 3
  /\ \E k \in 2..Len(tokens) : tokens[k - 1].type = "tagOpen"
                               /\ Len(tokens[k - 1].value) < Len(tokens[k - 1].text)
                               /\ tokens[k].offset > 0

\* C18: the stack always holds the modes the current mode was entered through
\* (main under comment and tag, main and tag under attr, nothing under main),
\* so every pop returns to the mode the push came from and none happens on an
\* empty stack; and after a token read inside a tag that is the '>' or '/>'
\* ending the tag, the lexer is in main mode
StackUnder(state) ==
  CASE state = "main" -> <<>>
    [] state = "comment" -> <<"main">>
    [] state = "tag" -> <<"main">>
    [] state = "attr" -> <<"main", "tag">>

InTagTypes == {"tagSelfClose", "tagEnd", "attrName", "tagWS", "tagAny",
               "attrAssignment", "attrEnd", "attrAny"}

TagEnds == {<<">">>, <<"/", ">">>}

C18_PushPopDiscipline ==
  /\ lexer.stack = StackUnder(lexer.state)
  /\ pc = "lex" /\ node.type \in InTagTypes /\ node.text \in TagEnds =>
       lexer.state = "main"

\* C19: no token of markup (a tag opening or closing, an attribute name,
\* assignment or value, a tag end) starts inside a comment, that is after a
\* <!-- with no --> between
InComment(d, i) ==
  \E c \in 0..(i - 4) :
    /\ HasAt(d, c, <<"<", "!", "-", "-">>)
    /\ \A e \in (c + 4)..i : ~HasAt(d, e, <<"-", "-", ">">>)

MarkupTypes == {"tagOpen", "tagClose", "tagSelfClose", "tagEnd", "attrName",
                "attrAssignment", "attrValue"}

C19_NoMarkupInComment ==
  \A k \in 1..Len(tokens) :
    tokens[k].type \in MarkupTypes => ~InComment(doc, tokens[k].offset)

ModuleValue == <<"m", "o", "d", "u", "l", "e">>

HasAttr(t, name) == \E j \in 1..Len(t.attrs) : t.attrs[j].name = name

HasAttrValue(t, name, value) ==
  \E j \in 1..Len(t.attrs) : t.attrs[j].name = name /\ t.attrs[j].value = value

\* the src values of the script tags that carry both type="module" and src
ModuleSrcs(tags) ==
  UNION {{tags[k].attrs[j].value : j \in {i \in 1..Len(tags[k].attrs) :
                                            tags[k].attrs[i].name = SrcName}} :
         k \in {i \in 1..Len(tags) : /\ tags[i].tag = ScriptTag
                                     /\ HasAttrValue(tags[i], TypeName, ModuleValue)
                                     /\ HasAttr(tags[i], SrcName)}}

ExpectedEntries(d) == {RootedOrRelative(v) : v \in ModuleSrcs(TagsOf(d))}

\* the token types produced outside a tag: a document whose last token is one
\* of them has every tag closed
OutsideTagTypes ==
  {"tagEnd", "tagSelfClose", "tagClose", "nl", "indent", "any", "docType",
   "commentStart", "commentEnd", "comment"}

EveryTagClosed(d) ==
  \/ AllTokens(d) = <<>>
  \/ AllTokens(d)[Len(AllTokens(d))].type \in OutsideTagTypes

WalkOver == \/ pc = "walk" /\ node.type = "EOF"
            \/ pc \in {"ReferenceError", "returned"}

PreloadOver == pc \notin {"start", "walk"}

\* C15: once preloadJS has walked the document, originalEntries holds exactly
\* the resolved src of the script tags that carry both type="module" and src,
\* whatever the order of the two; and on a document whose tags are all closed
\* the walk raises no error.
C15_EntriesAreModuleScripts ==
  /\ WalkOver => Elems(entry) = ExpectedEntries(doc)
  /\ EveryTagClosed(doc) => pc # "TypeError"

Occurrences(d, s) == {i \in 0..Len(d) : HasAt(d, i, s)}

PreloadLink(url) == PreloadLinkOpen \o url \o PreloadLinkClose

FallbackScript(url) == FallbackOpen \o url \o FallbackClose

OnceBefore(d, s, closing) ==
  /\ Cardinality(Occurrences(d, s)) = 1
  /\ \A i \in Occurrences(d, s) : \E c \in Occurrences(d, closing) : i < c

\* C13: on the page whose module script /app.js imports /util.js, preloadJS
\* returns, and the document it returns has exactly one modulepreload link for
\* /util.js, before </head>, exactly one fallback module script for /util.js,
\* before </body>, and no preload link for /app.js.
C13_AppPreloadsUtil ==
  doc = AppDocument /\ PreloadOver =>
    /\ pc = "returned"
    /\ OnceBefore(code, PreloadLink(UtilURL), HeadClose)
    /\ OnceBefore(code, FallbackScript(UtilURL), BodyClose)
    /\ Occurrences(code, PreloadLink(AppURL)) = {}

\* a second application returns its input as it is
AddsNothing(d, r) == r.status = "returned" /\ r.code = d

\* C14: applying preloadJS to the document a first application has left
\* returns that document unchanged: no preload link and no fallback script
\* is added.
C14_SecondPreloadAddsNothing ==
  PreloadOver => AddsNothing(code, preloadJS(code, imports))

====
